---- MODULE Spec2Model ----
(***************************************************************************)
(* Model of the Solana Pay checkout of the tutorial "Our first sale":      *)
(*   - pages/api/makeTransaction.ts  (handler: builds the unsigned,        *)
(*     reference-tagged transfer transaction and returns it as base64)     *)
(*   - pages/checkout.tsx            (Checkout: fetches the transaction,   *)
(*     hands it to the wallet, polls the ledger for the reference and      *)
(*     redirects to /confirmed)                                            *)
(* The ledger, the wallet and the Next.js router are the environment.      *)
(***************************************************************************)
EXTENDS Integers, Sequences, FiniteSets, Bags, TLC

----------------------------------------------------------------------------
(* Bounds of the model *)

MaxPolls    == 2     \* ticks of the polling interval in one run
MaxRequests == 2     \* build requests sent by the Checkout page in one run
MaxBlock    == 2     \* blockhashes the ledger goes through in one run
MaxQty      == 2     \* largest quantity of one product in a selection

----------------------------------------------------------------------------
(* Public keys and their base58 text form *)

NoKey == -1                          \* publicKey === null
SystemProgramId == 0                 \* SystemProgram.programId
shopAddress == 200                   \* lib/addresses.ts
Wallets == {11, 75}                  \* accounts the user's wallet can connect
RefKeys == {61, 130}                    \* keys Keypair.generate() can return
MaxKey == 255                        \* largest value of a well-formed key

Base == 58

RECURSIVE ToBase58(_)
\* PublicKey.toString(): the digits of the key in base 58, most significant first
ToBase58(n) ==
    IF n < Base THEN <<n>> ELSE Append(ToBase58(n \div Base), n % Base)

RECURSIVE FromBase58(_)
\* value of a digit string
FromBase58(s) ==
    IF Len(s) = 0 THEN 0
    ELSE FromBase58(SubSeq(s, 1, Len(s) - 1)) * Base + s[Len(s)]

\* new PublicKey(s) does not throw: every character is in the alphabet, the
\* text is canonical and the decoded value has the width of a key
ValidKeyString(s) ==
    /\ Len(s) > 0
    /\ \A i \in 1..Len(s) : s[i] \in 0..(Base - 1)
    /\ FromBase58(s) <= MaxKey
    /\ ToBase58(FromBase58(s)) = s

Missing == <<>>                      \* an absent (or empty) request field
BadString == <<58>>                  \* a text that is not a base58 key

----------------------------------------------------------------------------
(* Products and price (lib/products.ts, lib/calculatePrice.ts) *)

Products == {"box-of-cookies", "basket-of-cookies"}
PriceScale == 100                    \* prices are kept in 1/100 SOL
\* as if the prices of the two products were exchanged
priceSol_Exchanged == [p \in Products |->
                         IF p = "box-of-cookies" THEN 10 ELSE 5]

priceSol == [p \in Products |->
               IF p = "box-of-cookies" THEN 5 ELSE 10]   \* 0.05 and 0.1 SOL
LAMPORTS_PER_SOL == 1000000000

Selections == [Products -> 0..MaxQty]

\* the carts the checkout page is opened with: the empty and the full one
Carts == {[p \in Products |-> 0], [p \in Products |-> MaxQty]}

RECURSIVE SumOver(_, _)
SumOver(S, f) ==
    IF S = {} THEN 0
    ELSE LET p == CHOOSE x \in S : TRUE
         IN  f[p] + SumOver(S \ {p}, f)

\* calculatePrice(query): total of quantity x unit price, an exact decimal
\* (here in 1/100 SOL)
calculatePrice(items) ==
    SumOver(Products, [p \in Products |-> items[p] * priceSol[p]])

\* as if the amount were cut to one decimal place of SOL before the conversion
toLamports_Truncates(amount) ==
    (amount \div 10) * 10 * (LAMPORTS_PER_SOL \div PriceScale)

\* amount.multipliedBy(LAMPORTS_PER_SOL).toNumber()
toLamports(amount) == amount * (LAMPORTS_PER_SOL \div PriceScale)

----------------------------------------------------------------------------
(* Transactions (@solana/web3.js as used by the handler and the page) *)

Meta(k, s, w) == [pubkey |-> k, isSigner |-> s, isWritable |-> w]

\* SystemProgram.transfer({fromPubkey, lamports, toPubkey})
SystemProgramTransfer(from, lamports, to) ==
    [programId |-> SystemProgramId,
     keys      |-> <<Meta(from, TRUE, TRUE), Meta(to, FALSE, TRUE)>>,
     data      |-> [instruction |-> "Transfer", lamports |-> lamports]]

NoTx == [recentBlockhash |-> 0, feePayer |-> NoKey,
         instructions |-> <<>>, signatures |-> <<>>]

RECURSIVE InstructionMetas(_)
\* the keys of every instruction, in order
InstructionMetas(ixs) ==
    IF Len(ixs) = 0 THEN <<>>
    ELSE Head(ixs).keys \o InstructionMetas(Tail(ixs))

RECURSIVE ProgramMetas(_)
ProgramMetas(ixs) ==
    IF Len(ixs) = 0 THEN <<>>
    ELSE <<Meta(Head(ixs).programId, FALSE, FALSE)>> \o ProgramMetas(Tail(ixs))

RECURSIVE UniqueKeys(_)
\* the public keys of a list of metas, first occurrence only
UniqueKeys(ms) ==
    IF Len(ms) = 0 THEN <<>>
    ELSE LET front == UniqueKeys(SubSeq(ms, 1, Len(ms) - 1))
             k     == ms[Len(ms)].pubkey
         IN  IF \E i \in 1..Len(front) : front[i] = k
             THEN front ELSE Append(front, k)

\* Transaction.compileMessage(): one entry per account with the flags of its
\* occurrences merged, fee payer first, then signers before non-signers and
\* writable before read-only
compileAccounts(tx) ==
    LET all    == <<Meta(tx.feePayer, TRUE, TRUE)>>
                    \o InstructionMetas(tx.instructions)
                    \o ProgramMetas(tx.instructions)
        uniq   == UniqueKeys(all)
        merged == [i \in 1..Len(uniq) |->
                     Meta(uniq[i],
                          \E j \in 1..Len(all) :
                              all[j].pubkey = uniq[i] /\ all[j].isSigner,
                          \E j \in 1..Len(all) :
                              all[j].pubkey = uniq[i] /\ all[j].isWritable)]
        SW(m)  == m.isSigner /\ m.isWritable
        SR(m)  == m.isSigner /\ ~m.isWritable
        NW(m)  == ~m.isSigner /\ m.isWritable
        NR(m)  == ~m.isSigner /\ ~m.isWritable
    IN  SelectSeq(merged, SW) \o SelectSeq(merged, SR)
          \o SelectSeq(merged, NW) \o SelectSeq(merged, NR)

IndexOf(seq, k) == CHOOSE i \in 1..Len(seq) : seq[i] = k

\* transaction.serialize({requireAllSignatures: false}): the compiled message
\* with one reserved, empty signature slot per required signer
serialize(tx) ==
    LET accts  == compileAccounts(tx)
        keys   == [i \in 1..Len(accts) |-> accts[i].pubkey]
        nSig   == Len(SelectSeq(accts, LAMBDA m : m.isSigner))
        nROS   == Len(SelectSeq(accts, LAMBDA m : m.isSigner /\ ~m.isWritable))
        nROU   == Len(SelectSeq(accts, LAMBDA m : ~m.isSigner /\ ~m.isWritable))
    IN  [signatures |-> [i \in 1..nSig |-> "empty"],
         header |-> [numRequiredSignatures       |-> nSig,
                     numReadonlySignedAccounts   |-> nROS,
                     numReadonlyUnsignedAccounts |-> nROU],
         accountKeys     |-> keys,
         recentBlockhash |-> tx.recentBlockhash,
         instructions    |->
             [i \in 1..Len(tx.instructions) |->
                [programIdIndex |-> IndexOf(keys, tx.instructions[i].programId),
                 accounts |-> [j \in 1..Len(tx.instructions[i].keys) |->
                                 IndexOf(keys, tx.instructions[i].keys[j].pubkey)],
                 data     |-> tx.instructions[i].data]]]

NoWire == [signatures |-> <<>>,
           header |-> [numRequiredSignatures       |-> 0,
                       numReadonlySignedAccounts   |-> 0,
                       numReadonlyUnsignedAccounts |-> 0],
           accountKeys |-> <<>>, recentBlockhash |-> 0, instructions |-> <<>>]

\* Transaction.from(buffer): Transaction.populate(message, signatures)
TransactionFrom(wire) ==
    LET h == wire.header
        n == Len(wire.accountKeys)
        isAccountSigner(i)   == i <= h.numRequiredSignatures
        isAccountWritable(i) ==
            \/ i <= h.numRequiredSignatures - h.numReadonlySignedAccounts
            \/ /\ i > h.numRequiredSignatures
               /\ i <= n - h.numReadonlyUnsignedAccounts
    IN  [recentBlockhash |-> wire.recentBlockhash,
         feePayer |-> IF h.numRequiredSignatures > 0
                      THEN wire.accountKeys[1] ELSE NoKey,
         instructions |->
             [i \in 1..Len(wire.instructions) |->
                [programId |-> wire.accountKeys[wire.instructions[i].programIdIndex],
                 keys |-> [j \in 1..Len(wire.instructions[i].accounts) |->
                             LET a == wire.instructions[i].accounts[j]
                             IN  Meta(wire.accountKeys[a],
                                      isAccountSigner(a), isAccountWritable(a))],
                 data |-> wire.instructions[i].data]],
         signatures |->
             [i \in 1..Len(wire.signatures) |->
                [publicKey |-> wire.accountKeys[i], signature |-> "null"]]]

----------------------------------------------------------------------------
(* pages/api/makeTransaction.ts *)

Unavailable == 0                     \* getLatestBlockhash() rejects

\* what res.status(..).json(..) sends (status, error, transaction, message)
\* and what the run did to get there: whether it read the ledger's anchor,
\* and the Transaction object it built
Response(status, error, tx, wire, message, read) ==
    [status |-> status, error |-> error, transaction |-> wire,
     message |-> message, anchorRead |-> read, built |-> tx]

\* new Transaction({recentBlockhash, feePayer}) with one transfer instruction
\* to which the reference is pushed as a key that neither signs nor is written
buildTransaction(buyerPublicKey, amount, referenceKey, blockhash) ==
    LET transferInstruction ==
            SystemProgramTransfer(buyerPublicKey, toLamports(amount), shopAddress)
        withReference ==
            [transferInstruction EXCEPT
               !.keys = Append(@, Meta(referenceKey, FALSE, FALSE))]
    IN  [recentBlockhash |-> blockhash,
         feePayer        |-> buyerPublicKey,
         instructions    |-> <<withReference>>,
         signatures      |-> <<>>]

\* as if the account were checked before the reference
handler_AccountFirst(query, body, anchor) ==
    LET amount == calculatePrice(query.items)
        Refuse(status, error, read) ==
            Response(status, error, NoTx, NoWire, "", read)
    IN  IF amount = 0
        THEN Refuse(400, "Can't checkout with charge of 0", FALSE)
        ELSE IF body.account = Missing
        THEN Refuse(400, "No account provided", FALSE)
        ELSE IF query.reference = Missing
        THEN Refuse(400, "No reference provided", FALSE)
        ELSE IF ~ValidKeyString(body.account)
        THEN Refuse(500, "error creating transaction", FALSE)
        ELSE IF anchor = Unavailable
        THEN Refuse(500, "error creating transaction", TRUE)
        ELSE IF ~ValidKeyString(query.reference)
        THEN Refuse(500, "error creating transaction", TRUE)
        ELSE LET tx == buildTransaction(FromBase58(body.account), amount,
                                        FromBase58(query.reference), anchor)
             IN  Response(200, "", tx, serialize(tx),
                          "Thanks for your order!", TRUE)

\* as if the check of the account were missing
handler_NoAccountCheck(query, body, anchor) ==
    LET amount == calculatePrice(query.items)
        Refuse(status, error, read) ==
            Response(status, error, NoTx, NoWire, "", read)
    IN  IF amount = 0
        THEN Refuse(400, "Can't checkout with charge of 0", FALSE)
        ELSE IF query.reference = Missing
        THEN Refuse(400, "No reference provided", FALSE)
        ELSE IF ~ValidKeyString(body.account)
        THEN Refuse(500, "error creating transaction", FALSE)
        ELSE IF anchor = Unavailable
        THEN Refuse(500, "error creating transaction", TRUE)
        ELSE IF ~ValidKeyString(query.reference)
        THEN Refuse(500, "error creating transaction", TRUE)
        ELSE LET tx == buildTransaction(FromBase58(body.account), amount,
                                        FromBase58(query.reference), anchor)
             IN  Response(200, "", tx, serialize(tx),
                          "Thanks for your order!", TRUE)

\* as if the catch block answered with the message of the error it caught
handler_LeaksDetail(query, body, anchor) ==
    LET amount == calculatePrice(query.items)
        Refuse(status, error, read) ==
            Response(status, error, NoTx, NoWire, "", read)
    IN  IF amount = 0
        THEN Refuse(400, "Can't checkout with charge of 0", FALSE)
        ELSE IF query.reference = Missing
        THEN Refuse(400, "No reference provided", FALSE)
        ELSE IF body.account = Missing
        THEN Refuse(400, "No account provided", FALSE)
        ELSE IF ~ValidKeyString(body.account)
        THEN Refuse(500, "Invalid public key input", FALSE)
        ELSE IF anchor = Unavailable
        THEN Refuse(500, "failed to get recent blockhash", TRUE)
        ELSE IF ~ValidKeyString(query.reference)
        THEN Refuse(500, "Invalid public key input", TRUE)
        ELSE LET tx == buildTransaction(FromBase58(body.account), amount,
                                        FromBase58(query.reference), anchor)
             IN  Response(200, "", tx, serialize(tx),
                          "Thanks for your order!", TRUE)

\* handler(req, res): the response to a request with the given query and
\* body when the ledger answers getLatestBlockhash("finalized") with anchor
handler(query, body, anchor) ==
    LET amount == calculatePrice(query.items)
        Refuse(status, error, read) ==
            Response(status, error, NoTx, NoWire, "", read)
    IN  IF amount = 0
        THEN Refuse(400, "Can't checkout with charge of 0", FALSE)
        ELSE IF query.reference = Missing
        THEN Refuse(400, "No reference provided", FALSE)
        ELSE IF body.account = Missing
        THEN Refuse(400, "No account provided", FALSE)
        ELSE IF ~ValidKeyString(body.account)
        THEN Refuse(500, "error creating transaction", FALSE)
        ELSE IF anchor = Unavailable
        THEN Refuse(500, "error creating transaction", TRUE)
        ELSE IF ~ValidKeyString(query.reference)
        THEN Refuse(500, "error creating transaction", TRUE)
        ELSE LET tx == buildTransaction(FromBase58(body.account), amount,
                                        FromBase58(query.reference), anchor)
             IN  Response(200, "", tx, serialize(tx),
                          "Thanks for your order!", TRUE)

\* as if the return after the first res.status(400).json(..) were missing
responses_NoReturn(query, body, anchor) ==
    LET amount      == calculatePrice(query.items)
        afterAmount == IF amount = 0 THEN <<400>> ELSE <<>>
        returned1   == FALSE
        afterReference ==
            IF ~returned1 /\ query.reference = Missing
            THEN Append(afterAmount, 400) ELSE afterAmount
        returned2   == returned1 \/ query.reference = Missing
        afterAccount ==
            IF ~returned2 /\ body.account = Missing
            THEN Append(afterReference, 400) ELSE afterReference
        returned3   == returned2 \/ body.account = Missing
        thrown      == /\ ~returned3
                       /\ \/ ~ValidKeyString(body.account)
                          \/ anchor = Unavailable
                          \/ ~ValidKeyString(query.reference)
        afterTry    == IF ~returned3 /\ ~thrown
                       THEN Append(afterAccount, 200) ELSE afterAccount
    IN  IF thrown THEN Append(afterTry, 500) ELSE afterTry

\* handler(req, res), statement by statement: the statuses of the
\* res.status(..).json(..) calls one run makes, in order. Each of the three
\* checks answers and returns; the end of the try block answers 200 unless
\* a statement before it has thrown; the catch block answers 500
responses(query, body, anchor) ==
    LET amount      == calculatePrice(query.items)
        afterAmount == IF amount = 0 THEN <<400>> ELSE <<>>
        returned1   == amount = 0
        afterReference ==
            IF ~returned1 /\ query.reference = Missing
            THEN Append(afterAmount, 400) ELSE afterAmount
        returned2   == returned1 \/ query.reference = Missing
        afterAccount ==
            IF ~returned2 /\ body.account = Missing
            THEN Append(afterReference, 400) ELSE afterReference
        returned3   == returned2 \/ body.account = Missing
        thrown      == /\ ~returned3
                       /\ \/ ~ValidKeyString(body.account)
                          \/ anchor = Unavailable
                          \/ ~ValidKeyString(query.reference)
        afterTry    == IF ~returned3 /\ ~thrown
                       THEN Append(afterAccount, 200) ELSE afterAccount
    IN  IF thrown THEN Append(afterTry, 500) ELSE afterTry

----------------------------------------------------------------------------
(* State: the ledger, the wallet, and one checkout attempt (one mount of   *)
(* the Checkout component, from the opening of /checkout to after its      *)
(* unmount)                                                                *)

VARIABLES
    publicKey,      \* useWallet().publicKey: the connected account or NoKey
    blockhash,      \* the ledger's latest finalized blockhash
    settled,        \* transactions the ledger has settled
    route,          \* the page shown: "/", "/checkout" or "/confirmed"
    pendingNav,     \* target of a route change in progress, or "none"
    selection,      \* products in router.query of the checkout page
    reference,      \* the memoized reference of the mounted Checkout
    transaction,    \* useState transaction (NoTx is null)
    message,        \* useState message ("" is null)
    intervals,      \* active setInterval timers, each with the reference its
                    \* callback closes over
    polls,          \* interval callbacks awaiting findReference
    requests,       \* fetches of /api/makeTransaction in flight
    sends,          \* sendTransaction calls awaiting the wallet
    served,         \* the latest exchange of the handler on its own
    accepted,       \* an earlier build the handler on its own accepted
    console,        \* number of console.error calls by origin
    counters,       \* number of ticks and fetches so far
    hist            \* what has been observed of the attempt

envVars  == <<publicKey, blockhash, settled>>
pageVars == <<route, pendingNav, selection, reference, transaction,
              message, intervals, polls, requests, sends>>
obsVars  == <<served, accepted, console, counters, hist>>
vars     == <<envVars, pageVars, obsVars>>

Mounted == route = "/checkout"

\* the Checkout component has been mounted and unmounted again
Unmounted == hist.reference # NoKey /\ ~Mounted

NoResponse == Response(0, "", NoTx, NoWire, "", FALSE)
NoExchange == [query |-> [items |-> [p \in Products |-> 0], reference |-> Missing],
               body |-> [account |-> Missing], anchor |-> Unavailable,
               response |-> NoResponse]

NoBuild == [reference |-> NoKey, lamports |-> 0, to |-> NoKey]

BagAdd(B, e) == B (+) SetToBag({e})
BagRemove(B, e) == B (-) SetToBag({e})

Init ==
    /\ publicKey \in Wallets \cup {NoKey}
    /\ blockhash = 1
    /\ settled = {}
    /\ route = "/"
    /\ pendingNav = "none"
    /\ selection = [p \in Products |-> 0]
    /\ reference = NoKey
    /\ transaction = NoTx
    /\ message = ""
    /\ intervals = {}
    /\ polls = EmptyBag
    /\ requests = EmptyBag
    /\ sends = EmptyBag
    /\ served = NoExchange
    /\ accepted = NoBuild
    /\ console = [poll |-> 0, fetch |-> 0, send |-> 0]
    /\ counters = [ticks |-> 0, fetches |-> 0]
    /\ hist = [reference |-> NoKey, pushes |-> 0, notFound |-> 0,
               pollErrors |-> 0, broadcast |-> FALSE,
               queryAfterMatch |-> FALSE, queryAfterUnmount |-> FALSE,
               pushAfterUnmount |-> FALSE]

----------------------------------------------------------------------------
(* pages/checkout.tsx: the pieces of the Checkout component *)

\* Keypair.generate().publicKey: a key that is not in use; the keys are
\* interchangeable, so the least such key stands for any of them
KeypairGenerate ==
    {k \in RefKeys : k # reference /\ \A j \in RefKeys : j # reference => k <= j}

\* as if the memo were recomputed on every render
useMemoReference_Regenerate(cached, generated) == generated

\* useMemo(() => Keypair.generate().publicKey, []) on a re-render: the
\* dependency list is empty, the cached key is returned
useMemoReference(cached, generated) == cached

\* as if the request were sent only once per attempt
getTransaction_Once(pk, items, ref) ==
    IF pk = NoKey \/ counters.fetches > 0 THEN {}
    ELSE {[query    |-> [items |-> items, reference |-> ToBase58(ref)],
           body     |-> [account |-> ToBase58(pk)]]}

\* as if getTransaction did not return early without a wallet
getTransaction_NoGuard(pk, items, ref) ==
    {[query    |-> [items |-> items, reference |-> ToBase58(ref)],
      body     |-> [account |-> ToBase58(pk)]]}

\* getTransaction(): the fetch it starts (none without a connected wallet);
\* the query is the page's query plus the reference, the body the account
getTransaction(pk, items, ref) ==
    IF pk = NoKey THEN {}
    ELSE {[query    |-> [items |-> items, reference |-> ToBase58(ref)],
           body     |-> [account |-> ToBase58(pk)]]}

\* the cleanup of the polling effect: clearInterval(interval)
cleanup(ivs) == {}

\* as if the catch block had no early return
catchFindReferenceError_Logs(c) == [c EXCEPT !.poll = @ + 1]

\* catch (e): e instanceof FindReferenceError, return without logging
catchFindReferenceError(c) == c

\* as if every error were ignored like a FindReferenceError
catchUnknownError_Swallows(c) == c

\* catch (e): any other error, console.error("Unknown error", e)
catchUnknownError(c) == [c EXCEPT !.poll = @ + 1]

\* findReference(connection, reference) finds a settled transaction that
\* has the reference among the keys of an instruction
Mentions(tx, ref) ==
    \E i \in 1..Len(tx.instructions) :
        \E j \in 1..Len(tx.instructions[i].keys) :
            tx.instructions[i].keys[j].pubkey = ref

\* as if a match also had to pay the amount of the selection to the shop
Found_Verified(ref) ==
    \E tx \in settled :
        /\ Mentions(tx, ref)
        /\ tx.instructions[1].keys[2].pubkey = shopAddress
        /\ tx.instructions[1].data.lamports = toLamports(calculatePrice(selection))

Found(ref) == \E tx \in settled : Mentions(tx, ref)

\* the anchor of a transaction is still accepted by the ledger
Fresh(tx) == tx.recentBlockhash = blockhash

----------------------------------------------------------------------------
(* Steps of the page *)

\* The checkout page is opened: first render of Checkout and its three
\* effects (getTransaction, trySendTransaction with no transaction, setInterval)
Mount(items, g) ==
    /\ route = "/"
    /\ pendingNav = "none"
    /\ hist.reference = NoKey
    /\ LET new == getTransaction(publicKey, items, g)
       IN  /\ route' = "/checkout"
           /\ selection' = items
           /\ reference' = g
           /\ transaction' = NoTx
           /\ message' = ""
           /\ intervals' = intervals \cup {[reference |-> g]}
           /\ requests' = requests (+) SetToBag(new)
           /\ counters' = [counters EXCEPT !.fetches = @ + Cardinality(new)]
           /\ hist' = [hist EXCEPT !.reference = g]
    /\ UNCHANGED <<envVars, pendingNav, polls, sends, served, accepted, console>>

\* The wallet connects, disconnects or switches account; a mounted Checkout
\* renders again and its effect on [publicKey] runs getTransaction
WalletChange(k, g) ==
    /\ k # publicKey
    /\ publicKey' = k
    /\ IF Mounted
       THEN /\ k # NoKey => counters.fetches < MaxRequests
            /\ reference' = useMemoReference(reference, g)
            /\ LET new == getTransaction(k, selection, reference')
               IN  /\ requests' = requests (+) SetToBag(new)
                   /\ counters' = [counters EXCEPT !.fetches = @ + Cardinality(new)]
       ELSE UNCHANGED <<reference, requests, counters>>
    /\ UNCHANGED <<blockhash, settled, route, pendingNav,
                   selection, transaction, message, intervals, polls, sends,
                   served, accepted, console, hist>>

\* The server runs the handler on the request (reading the latest blockhash
\* at that moment) and getTransaction resumes with the response: a non-200
\* answer is logged and dropped, a 200 answer is decoded and stored, and the
\* effect on [transaction] runs trySendTransaction
FetchReturn(r, anchor, g) ==
    /\ BagIn(r, requests)
    /\ requests' = BagRemove(requests, r)
    /\ LET response == handler(r.query, r.body, anchor)
       IN  IF response.status # 200
           THEN /\ console' = [console EXCEPT !.fetch = @ + 1]
                /\ UNCHANGED <<reference, transaction, message, sends>>
           ELSE IF Mounted
           THEN /\ transaction' = TransactionFrom(response.transaction)
                /\ message' = response.message
                /\ reference' = useMemoReference(reference, g)
                /\ IF publicKey = NoKey
                   THEN /\ console' = [console EXCEPT !.send = @ + 1]
                        /\ UNCHANGED sends
                   ELSE /\ sends' = BagAdd(sends, [transaction |-> transaction'])
                        /\ UNCHANGED console
           ELSE UNCHANGED <<reference, transaction, message, sends, console>>
    /\ UNCHANGED <<envVars, route, pendingNav, selection, intervals,
                   polls, served, accepted, counters, hist>>

\* as if the catch block of trySendTransaction called sendTransaction again
WalletRespond_Retries(s, outcome) ==
    /\ BagIn(s, sends)
    /\ \/ /\ outcome = "approved"
          /\ Fresh(s.transaction)
          /\ publicKey = s.transaction.feePayer
          /\ sends' = BagRemove(sends, s)
          /\ \E lands \in BOOLEAN :
                settled' = IF lands THEN settled \cup {s.transaction} ELSE settled
          /\ hist' = [hist EXCEPT !.broadcast = TRUE]
          /\ UNCHANGED console
       \/ /\ outcome = "rejected"
          /\ console.send < MaxRequests
          /\ console' = [console EXCEPT !.send = @ + 1]
          /\ UNCHANGED <<sends, settled, hist>>
       \/ /\ outcome = "failed"
          /\ ~Fresh(s.transaction) \/ publicKey # s.transaction.feePayer
          /\ sends' = BagRemove(sends, s)
          /\ console' = [console EXCEPT !.send = @ + 1]
          /\ UNCHANGED <<settled, hist>>
    /\ UNCHANGED <<publicKey, blockhash, route, pendingNav,
                   selection, reference, transaction, message, intervals,
                   polls, requests, served, accepted, counters>>

\* The wallet answers sendTransaction: it signs and sends the transaction,
\* which the ledger settles or drops, or the call throws (declined by the
\* user, expired anchor, other account connected)
WalletRespond(s, outcome) ==
    /\ BagIn(s, sends)
    /\ sends' = BagRemove(sends, s)
    /\ \/ /\ outcome = "approved"
          /\ Fresh(s.transaction)
          /\ publicKey = s.transaction.feePayer
          /\ \E lands \in BOOLEAN :
                settled' = IF lands THEN settled \cup {s.transaction} ELSE settled
          /\ hist' = [hist EXCEPT !.broadcast = TRUE]
          /\ UNCHANGED console
       \/ /\ outcome = "rejected"
          /\ console' = [console EXCEPT !.send = @ + 1]
          /\ UNCHANGED <<settled, hist>>
       \/ /\ outcome = "failed"
          /\ ~Fresh(s.transaction) \/ publicKey # s.transaction.feePayer
          /\ console' = [console EXCEPT !.send = @ + 1]
          /\ UNCHANGED <<settled, hist>>
    /\ UNCHANGED <<publicKey, blockhash, route, pendingNav,
                   selection, reference, transaction, message, intervals,
                   polls, requests, served, accepted, counters>>

\* as if the callback gave up after a number of polls
Tick_Expires(t) ==
    /\ t \in intervals
    /\ counters.ticks < MaxPolls
    /\ polls' = BagAdd(polls, [reference |-> t.reference])
    /\ counters' = [counters EXCEPT !.ticks = @ + 1]
    /\ intervals' = IF counters.ticks + 1 = MaxPolls THEN {} ELSE intervals
    /\ hist' = [hist EXCEPT
                  !.queryAfterMatch = @ \/ hist.pushes > 0,
                  !.queryAfterUnmount = @ \/ Unmounted]
    /\ UNCHANGED <<envVars, route, pendingNav, selection, reference,
                   transaction, message, requests, sends, served, accepted,
                   console>>

\* as if the timer polled only once a submission has been accepted
Tick_AfterBroadcast(t) ==
    /\ t \in intervals
    /\ hist.broadcast
    /\ counters.ticks < MaxPolls
    /\ polls' = BagAdd(polls, [reference |-> t.reference])
    /\ counters' = [counters EXCEPT !.ticks = @ + 1]
    /\ hist' = [hist EXCEPT
                  !.queryAfterMatch = @ \/ hist.pushes > 0,
                  !.queryAfterUnmount = @ \/ Unmounted]
    /\ UNCHANGED <<envVars, route, pendingNav, selection, reference,
                   transaction, message, requests, sends, served, accepted,
                   console>>

\* The interval fires: the callback starts and calls findReference
Tick(t) ==
    /\ t \in intervals
    /\ counters.ticks < MaxPolls
    /\ polls' = BagAdd(polls, [reference |-> t.reference])
    /\ counters' = [counters EXCEPT !.ticks = @ + 1]
    /\ hist' = [hist EXCEPT
                  !.queryAfterMatch = @ \/ hist.pushes > 0,
                  !.queryAfterUnmount = @ \/ Unmounted]
    /\ UNCHANGED <<envVars, route, pendingNav, selection, reference,
                   transaction, message, intervals, requests, sends, served, accepted,
                   console>>

\* as if a match were only logged ("They paid!!!"), as in the first version
\* of the effect
PollReturn_LogsOnly(p, outcome) ==
    /\ BagIn(p, polls)
    /\ polls' = BagRemove(polls, p)
    /\ \/ /\ outcome = "found"
          /\ Found(p.reference)
          /\ UNCHANGED <<pendingNav, hist, console>>
       \/ /\ outcome = "notfound"
          /\ ~Found(p.reference)
          /\ console' = catchFindReferenceError(console)
          /\ hist' = [hist EXCEPT !.notFound = @ + 1]
          /\ UNCHANGED pendingNav
       \/ /\ outcome = "error"
          /\ console' = catchUnknownError(console)
          /\ hist' = [hist EXCEPT !.pollErrors = @ + 1]
          /\ UNCHANGED pendingNav
    /\ UNCHANGED <<envVars, route, selection, reference, transaction,
                   message, intervals, requests, sends, served, accepted, counters>>

\* findReference settles: a match (router.push("/confirmed")), a
\* FindReferenceError (ignored) or another error (console.error)
PollReturn(p, outcome) ==
    /\ BagIn(p, polls)
    /\ polls' = BagRemove(polls, p)
    /\ \/ /\ outcome = "found"
          /\ Found(p.reference)
          /\ pendingNav' = "/confirmed"
          /\ hist' = [hist EXCEPT
                        !.pushes = @ + 1,
                        !.pushAfterUnmount = @ \/ Unmounted]
          /\ UNCHANGED console
       \/ /\ outcome = "notfound"
          /\ ~Found(p.reference)
          /\ console' = catchFindReferenceError(console)
          /\ hist' = [hist EXCEPT !.notFound = @ + 1]
          /\ UNCHANGED pendingNav
       \/ /\ outcome = "error"
          /\ console' = catchUnknownError(console)
          /\ hist' = [hist EXCEPT !.pollErrors = @ + 1]
          /\ UNCHANGED pendingNav
    /\ UNCHANGED <<envVars, route, selection, reference, transaction,
                   message, intervals, requests, sends, served, accepted, counters>>

\* The user clicks the BackLink of the checkout or the confirmed page
ClickBackLink ==
    /\ route \in {"/checkout", "/confirmed"}
    /\ pendingNav' = "/"
    /\ UNCHANGED <<envVars, route, selection, reference, transaction,
                   message, intervals, polls, requests, sends, served, accepted, console,
                   counters, hist>>

\* The router finishes a route change; leaving /checkout unmounts Checkout,
\* which runs the cleanup of the polling effect
RouteChangeComplete ==
    /\ pendingNav # "none"
    /\ route' = pendingNav
    /\ pendingNav' = "none"
    /\ IF Mounted
       THEN /\ intervals' = cleanup(intervals)
            /\ reference' = NoKey
            /\ transaction' = NoTx
            /\ message' = ""
       ELSE UNCHANGED <<intervals, reference, transaction, message>>
    /\ UNCHANGED <<envVars, selection, polls, requests, sends, served, accepted,
                   console, counters, hist>>

----------------------------------------------------------------------------
(* Steps of the ledger *)

Stranger == 42                       \* an account that is not the buyer's

\* Somebody else settles a transaction that carries the reference: one
\* lamport sent from the stranger to itself
StrangerPays(ref) ==
    /\ ref # NoKey
    /\ ref = hist.reference
    /\ ~Found(ref)
    /\ settled' = settled \cup
         {[buildTransaction(Stranger, 0, ref, blockhash) EXCEPT
             !.instructions[1].keys[2].pubkey = Stranger,
             !.instructions[1].data.lamports = 1]}
    /\ UNCHANGED <<publicKey, blockhash, pageVars, served, accepted, console,
                   counters, hist>>

\* The ledger finalizes a new block, which expires the anchor of a
\* transaction awaiting the wallet (a block finalized while no such
\* transaction exists changes no outcome)
LedgerAdvance ==
    /\ blockhash < MaxBlock
    /\ \E s \in BagToSet(sends) : Fresh(s.transaction)
    /\ blockhash' = blockhash + 1
    /\ UNCHANGED <<publicKey, settled, pageVars, served, accepted, console,
                   counters, hist>>

----------------------------------------------------------------------------

Next ==
    \/ \E items \in Carts, g \in KeypairGenerate : Mount(items, g)
    \/ \E k \in Wallets \cup {NoKey}, g \in KeypairGenerate : WalletChange(k, g)
    \/ \E r \in BagToSet(requests), anchor \in {blockhash, Unavailable},
          g \in KeypairGenerate : FetchReturn(r, anchor, g)
    \/ \E s \in BagToSet(sends), o \in {"approved", "rejected", "failed"} :
           WalletRespond(s, o)
    \/ \E t \in intervals : Tick(t)
    \/ \E p \in BagToSet(polls), o \in {"found", "notfound", "error"} :
           PollReturn(p, o)
    \/ ClickBackLink
    \/ RouteChangeComplete
    \/ \E ref \in RefKeys : StrangerPays(ref)
    \/ LedgerAdvance

Spec == Init /\ [][Next]_vars

----------------------------------------------------------------------------
(* The handler on its own: any client may send any request *)

\* the reference parameter: absent, not a key, a fresh key, the buyer's own
\* address, the shop's address
ReferenceParams ==
    {Missing, BadString, ToBase58(61), ToBase58(11), ToBase58(shopAddress)}
\* the account of the body: absent, not a key, a wallet, the shop's address
AccountParams ==
    {Missing, BadString} \cup {ToBase58(k) : k \in Wallets \cup {shopAddress}}

\* reference, amount and recipient of the transaction of an accepted exchange
BuildOf(e) ==
    [reference |-> FromBase58(e.query.reference),
     lamports  |-> e.response.built.instructions[1].data.lamports,
     to        |-> e.response.built.instructions[1].keys[2].pubkey]

\* as if the handler sent the transaction it built to the ledger
Serve_Broadcasts(items, ref, account, anchor) ==
    /\ accepted = NoBuild
    /\ LET query == [items |-> items, reference |-> ref]
           body  == [account |-> account]
           res   == handler(query, body, anchor)
       IN  /\ served' = [query |-> query, body |-> body, anchor |-> anchor,
                         response |-> res]
           /\ settled' = IF res.status = 200
                         THEN settled \cup {res.built} ELSE settled
    /\ \/ UNCHANGED accepted
       \/ /\ served.response.status = 200
          /\ accepted' = BuildOf(served)
    /\ UNCHANGED <<publicKey, blockhash, pageVars, console, counters, hist>>

\* The server runs the handler on a request. The exchange is kept in served;
\* the build of the exchange it replaces may be kept in accepted, and the
\* exchange that follows is the last one looked at (the handler keeps
\* nothing, so later exchanges repeat the earlier ones)
Serve(items, ref, account, anchor) ==
    /\ accepted = NoBuild
    /\ LET query == [items |-> items, reference |-> ref]
           body  == [account |-> account]
       IN  served' = [query |-> query, body |-> body, anchor |-> anchor,
                      response |-> handler(query, body, anchor)]
    /\ \/ UNCHANGED accepted
       \/ /\ served.response.status = 200
          /\ accepted' = BuildOf(served)
    /\ UNCHANGED <<envVars, pageVars, console, counters, hist>>

HandlerInit == Init /\ publicKey = NoKey

HandlerNext ==
    \E items \in Selections, ref \in ReferenceParams, account \in AccountParams,
       anchor \in {Unavailable} \cup (1..MaxBlock) :
        Serve(items, ref, account, anchor)

HandlerSpec == HandlerInit /\ [][HandlerNext]_vars

----------------------------------------------------------------------------
(* Properties of the confirmation poller *)

Confirmed == hist.pushes > 0

TimerActive == intervals # {}

\* C1: when the ledger answers "not found" to the first N polls and a match
\* to the next one, the page redirects to /confirmed exactly once and no
\* ledger query for the reference is started after the match.
C1_ConfirmedOnceThenSilent ==
    hist.pushes <= 1 /\ ~hist.queryAfterMatch

\* C2: a poll that ends with FindReferenceError changes nothing of the
\* checkout (no redirect, no state of the component, no fetch, no
\* submission), logs no error and leaves the interval timer as it was, so
\* that the next tick polls again.
C2_NotFoundIsSilent ==
    [][hist'.notFound > hist.notFound =>
          /\ console' = console
          /\ intervals' = intervals
          /\ <<route, pendingNav, reference, transaction, message>>'
               = <<route, pendingNav, reference, transaction, message>>
          /\ <<requests, sends>>' = <<requests, sends>>
          /\ hist'.pushes = hist.pushes]_vars

C2_Witness ==
    /\ hist.notFound >= 1
    /\ Mounted /\ TimerActive
    /\ BagCardinality(polls) >= 1

\* C3: a poll that fails with an error other than "not found" is logged as
\* an error, and it neither stops the timer nor redirects; the page is
\* redirected to /confirmed only when a settled transaction carries the
\* reference.
C3_ErrorSurfacedPollingGoesOn ==
    /\ [][hist'.pollErrors > hist.pollErrors =>
             /\ console'.poll = console.poll + 1
             /\ intervals' = intervals
             /\ <<route, pendingNav>>' = <<route, pendingNav>>
             /\ hist'.pushes = hist.pushes]_vars
    /\ [](Confirmed => Found(hist.reference))

C3_Witness ==
    /\ hist.pollErrors >= 2
    /\ console.poll >= 2
    /\ ~Confirmed /\ pendingNav = "none"
    /\ Mounted /\ TimerActive

\* C4 as stated: once the attempt budget is used up without a match,
\* polling has stopped.
C4_PollingStopsAtBudget ==
    (counters.ticks >= MaxPolls /\ ~Confirmed) => ~TimerActive

\* C4: the timer of the polling effect is active exactly while Checkout is
\* mounted, however many polls have ended without a match; no number of
\* polls and no timeout releases it.
C4_TimerActiveWhileMounted ==
    /\ Mounted => intervals = {[reference |-> hist.reference]}
    /\ ~Mounted => intervals = {}

C4_Witness ==
    /\ Mounted /\ TimerActive
    /\ counters.ticks = MaxPolls
    /\ polls = EmptyBag
    /\ ~Confirmed

\* C5: after the unmount of Checkout no ledger query for the reference is
\* started and no redirect to /confirmed is made, also by a callback that
\* was in flight at the unmount.
C5_NothingAfterCancel ==
    ~hist.queryAfterUnmount /\ ~hist.pushAfterUnmount

\* C6: once the checkout is Confirmed (or in another terminal state) the
\* interval timer is not active.
C6_TerminalTimerReleased ==
    Confirmed => ~TimerActive

----------------------------------------------------------------------------
(* Properties of the build request and the reference *)

\* C7 as stated: at most one build request is sent in one attempt.
C7_BuildOnce == counters.fetches <= 1

\* C7: a build request is sent exactly when the effect on [publicKey] runs
\* with a connected wallet: at the mount, and at every later change of the
\* connected account to another account while Checkout is mounted.
C7_BuildPerWalletChange ==
    [][counters'.fetches - counters.fetches =
          IF /\ Mounted'
             /\ publicKey' # NoKey
             /\ ~Mounted \/ publicKey' # publicKey
          THEN 1 ELSE 0]_vars

C7_Witness ==
    /\ counters.fetches >= 2
    /\ Mounted

\* C8: the reference generated at the mount is the one in every build
\* request and in every poll of the attempt, and the one the component
\* holds after every re-render.
C8_OneReference ==
    /\ \A r \in BagToSet(requests) :
          r.query.reference = ToBase58(hist.reference)
    /\ \A p \in BagToSet(polls) : p.reference = hist.reference
    /\ \A t \in intervals : t.reference = hist.reference
    /\ Mounted => reference = hist.reference

C8_Witness ==
    /\ Mounted
    /\ counters.fetches >= 2
    /\ transaction # NoTx
    /\ BagCardinality(requests) >= 1
    /\ BagCardinality(polls) >= 1

\* C9: the handler never accepts the reference of an earlier accepted build
\* with another amount or another recipient.
C9_ReferenceNotReused ==
    (/\ served.response.status = 200
     /\ accepted # NoBuild
     /\ BuildOf(served).reference = accepted.reference)
        => /\ BuildOf(served).lamports = accepted.lamports
           /\ BuildOf(served).to = accepted.to

\* C10: the transaction of an accepted request has one instruction, the
\* transfer of the amount from the buyer to the shop, the buyer as fee
\* payer, and the reference as last key, not a signer and not writable; no
\* key of the reference's address is a signer or writable.
C10_BuiltTransaction ==
    served.response.status = 200 =>
        LET tx    == served.response.built
            buyer == FromBase58(served.body.account)
            ref   == FromBase58(served.query.reference)
            ix    == tx.instructions[1]
        IN  /\ Len(tx.instructions) = 1
            /\ tx.feePayer = buyer
            /\ ix.programId = SystemProgramId
            /\ ix.data = [instruction |-> "Transfer",
                          lamports |-> toLamports(calculatePrice(served.query.items))]
            /\ ix.keys = <<Meta(buyer, TRUE, TRUE), Meta(shopAddress, FALSE, TRUE),
                           Meta(ref, FALSE, FALSE)>>
            /\ \A j \in 1..Len(ix.keys) :
                   ix.keys[j].pubkey = ref =>
                       ~ix.keys[j].isSigner /\ ~ix.keys[j].isWritable

----------------------------------------------------------------------------
(* Properties of the build handler *)

\* the handler has answered a request
Served == served.response.status # 0

GenericError == "error creating transaction"

\* C11: when the computed amount is zero, the reference parameter is missing
\* or the account of the body is missing, the handler answers 400 with an
\* error text, builds no transaction and does not read the ledger's anchor.
C11_BadRequest ==
    (/\ Served
     /\ \/ calculatePrice(served.query.items) = 0
        \/ served.query.reference = Missing
        \/ served.body.account = Missing)
        => /\ served.response.status = 400
           /\ served.response.error # ""
           /\ served.response.error # GenericError
           /\ served.response.transaction = NoWire
           /\ served.response.built = NoTx
           /\ ~served.response.anchorRead

C11_Witness ==
    /\ served.response.status = 400
    /\ calculatePrice(served.query.items) > 0
    /\ served.query.reference # Missing
    /\ served.body.account = Missing
    /\ served.anchor # Unavailable

\* C12: when the anchor cannot be fetched, or the account or the reference
\* is not a public key, the handler answers 500 with the one fixed error
\* text, whatever the cause, and returns no transaction.
C12_GenericFailure ==
    /\ (/\ Served
        /\ calculatePrice(served.query.items) # 0
        /\ served.query.reference # Missing
        /\ served.body.account # Missing
        /\ \/ served.anchor = Unavailable
           \/ ~ValidKeyString(served.body.account)
           \/ ~ValidKeyString(served.query.reference))
          => served.response.status = 500
    /\ served.response.status = 500
          => /\ served.response.error = GenericError
             /\ served.response.transaction = NoWire
             /\ served.response.message = ""

C12_Witness ==
    /\ served.response.status = 500
    /\ served.anchor # Unavailable
    /\ ValidKeyString(served.body.account)
    /\ ~ValidKeyString(served.query.reference)

\* C13: decoding the serialization of an accepted build gives back the fee
\* payer, the anchor and the instruction of the transaction built: program,
\* amount, and the keys in order with their isSigner/isWritable flags, the
\* reference key included.
C13_RoundTrip ==
    served.response.status = 200 =>
        LET built   == served.response.built
            decoded == TransactionFrom(served.response.transaction)
        IN  /\ decoded.feePayer = built.feePayer
            /\ decoded.recentBlockhash = built.recentBlockhash
            /\ decoded.instructions = built.instructions

----------------------------------------------------------------------------
(* Properties of the amount *)

\* the lamports of the transfer of the transaction built
ChargedLamports == served.response.built.instructions[1].data.lamports

\* lamports / 10^9 = amount / PriceScale, whole SOL and fraction compared
\* apart
ExactLamports(amount, lamports) ==
    /\ lamports \div LAMPORTS_PER_SOL = amount \div PriceScale
    /\ lamports % LAMPORTS_PER_SOL
         = (amount % PriceScale) * (LAMPORTS_PER_SOL \div PriceScale)

C15_AmountCharged ==
    served.response.status = 200 =>
        LET tx == served.response.built
            ix == tx.instructions[1]
        IN  /\ Len(tx.instructions) = 1
            /\ ix.programId = SystemProgramId
            /\ ix.data.instruction = "Transfer"
            /\ ix.keys[1].pubkey = FromBase58(served.body.account)
            /\ ix.keys[2].pubkey = shopAddress
            /\ ix.data.lamports =
                  served.query.items["box-of-cookies"] * 50000000
                  + served.query.items["basket-of-cookies"] * 100000000
            /\ (/\ served.query.items["box-of-cookies"] = 2
                /\ served.query.items["basket-of-cookies"] = 0)
                  => ix.data.lamports = 100000000

C15_Witness ==
    /\ served.response.status = 200
    /\ served.query.items["box-of-cookies"] = 2
    /\ served.query.items["basket-of-cookies"] = 0
    /\ ChargedLamports = 100000000
    /\ served.response.built.instructions[1].keys[1].pubkey \in Wallets

----------------------------------------------------------------------------
(* Properties of the checkout page on failures *)

\* what a mounted Checkout renders: the request to connect a wallet, the
\* message of the build with the request to approve, or the loading text
Shown ==
    IF publicKey = NoKey THEN "You need to connect your wallet"
    ELSE IF message # "" THEN "Please approve the transaction"
    ELSE "Creating transaction..."

\* sendTransaction of s throws in this step: the call leaves the pending
\* ones and trySendTransaction logs the error
SendThrows(s) ==
    /\ BagIn(s, sends)
    /\ sends' = BagRemove(sends, s)
    /\ console'.send = console.send + 1

\* C16: when the user declines a transaction the wallet could have sent
\* (anchor valid, fee payer connected), the page shows the failure: what it
\* renders is no longer the request to approve.
C16_RejectionShown ==
    [][\A s \in BagToSet(sends) :
          (/\ SendThrows(s)
           /\ Mounted
           /\ Fresh(s.transaction)
           /\ publicKey = s.transaction.feePayer)
              => Shown' # Shown]_vars

\* C17: when sendTransaction throws for a transaction whose anchor has
\* expired, the page sends a new build request.
C17_StaleRebuilds ==
    [][\A s \in BagToSet(sends) :
          (/\ SendThrows(s)
           /\ Mounted
           /\ ~Fresh(s.transaction)
           /\ publicKey = s.transaction.feePayer)
              => counters'.fetches = counters.fetches + 1]_vars

\* C18: when the build request is answered with a status other than 200,
\* the page stops showing the loading text.
C18_BuildFailureShown ==
    [][(console'.fetch = console.fetch + 1 /\ Mounted)
          => Shown' # "Creating transaction..."]_vars

----------------------------------------------------------------------------
(* Properties of the start of polling *)

\* C19 as stated: a ledger query is started only after a submission of the
\* checkout has been accepted for broadcast, and never while no wallet is
\* connected.
C19_PollsOnlyAfterBroadcast ==
    [][counters'.ticks > counters.ticks
          => hist.broadcast /\ publicKey # NoKey]_vars

\* C19: polling is entered at the mount: while Checkout is mounted the
\* timer can start a ledger query for the reference, whether or not a wallet
\* is connected and a transaction has been built, submitted or broadcast
\* (up to the number of ticks of the run).
C19_PollsFromMount ==
    (Mounted /\ counters.ticks < MaxPolls)
        => ENABLED (\E t \in intervals : Tick(t))

C19_Witness ==
    /\ Mounted
    /\ publicKey = NoKey
    /\ counters.fetches = 0
    /\ transaction = NoTx
    /\ ~hist.broadcast
    /\ counters.ticks = MaxPolls
    /\ hist.notFound >= 1

----------------------------------------------------------------------------
(* Properties of the match *)

\* some settled transaction has the reference of the attempt among its keys
ReferenceSettled == \E tx \in settled : Mentions(tx, hist.reference)

\* an interval callback ends in this step
PollEnds == \E p \in BagToSet(polls) : polls' = BagRemove(polls, p)

\* C20: once any settled transaction contains the reference, whoever sent it
\* and whatever it transfers, a poll that ends without an error redirects to
\* /confirmed: it is never answered "not found".
C20_ReferenceAloneConfirms ==
    [][(ReferenceSettled /\ PollEnds)
          => \/ hist'.pollErrors = hist.pollErrors + 1
             \/ /\ pendingNav' = "/confirmed"
                /\ hist'.pushes = hist.pushes + 1]_vars

\* confirmed although the only settled transaction with the reference is the
\* stranger's, which pays nothing to the shop
C20_Witness ==
    /\ route = "/confirmed"
    /\ Confirmed
    /\ settled # {}
    /\ \A tx \in settled :
          /\ tx.feePayer = Stranger
          /\ tx.instructions[1].keys[2].pubkey # shopAddress
    /\ transaction = NoTx
    /\ ~hist.broadcast

----------------------------------------------------------------------------
(* Properties of the handler as a whole *)

----------------------------------------------------------------------------
(* Properties of the checkout as a whole *)

\* C23: once the checkout is Confirmed, no build request is sent, no
\* transaction is submitted to the wallet and no further redirect to
\* /confirmed is made.
C23_TerminalAbsorbing ==
    [][Confirmed =>
          /\ counters'.fetches = counters.fetches
          /\ BagCardinality(sends') <= BagCardinality(sends)
          /\ hist'.pushes = hist.pushes]_vars

\* C24: a build request is sent only by a render with a connected wallet,
\* and a transaction is handed to the wallet only with a wallet connected,
\* in the step in which a build response with status 200 is decoded and
\* stored: the transaction handed over is the one stored.
C24_NothingWithoutWallet ==
    [][/\ counters'.fetches > counters.fetches => publicKey' # NoKey
       /\ BagCardinality(sends') > BagCardinality(sends) =>
             /\ publicKey # NoKey
             /\ \E r \in BagToSet(requests) :
                   /\ requests' = BagRemove(requests, r)
                   /\ handler(r.query, r.body, transaction'.recentBlockhash).status
                        = 200
             /\ console'.fetch = console.fetch
             /\ transaction' # NoTx
             /\ sends' = BagAdd(sends, [transaction |-> transaction'])]_vars

\* the wallet was disconnected while the request was in flight: the
\* response was stored and nothing was handed to a wallet
C24_Witness ==
    /\ Mounted
    /\ publicKey = NoKey
    /\ counters.fetches = 1
    /\ requests = EmptyBag
    /\ transaction # NoTx
    /\ sends = EmptyBag
    /\ console.send = 1
    /\ ~hist.broadcast

\* C25: the transaction handed to the wallet has the account connected at
\* that moment as fee payer and as source of the transfer.
C25_FeePayerIsConnected ==
    [][BagCardinality(sends') > BagCardinality(sends) =>
          /\ transaction'.feePayer = publicKey
          /\ transaction'.instructions[1].keys[1].pubkey = publicKey]_vars

\* a build response with status 200 is stored by the mounted page in this step
ResponseStored ==
    /\ Mounted
    /\ \E r \in BagToSet(requests) : requests' = BagRemove(requests, r)
    /\ console'.fetch = console.fetch

\* C26: a stored build response leads to one call of sendTransaction, which
\* is pending with the wallet or, without a wallet, has thrown at once; a
\* submission begins in no other step; and a submission that throws ends
\* without another one beginning.
C26_SubmittedOnce ==
    [][/\ ResponseStored =>
             IF publicKey = NoKey
             THEN sends' = sends /\ console'.send = console.send + 1
             ELSE /\ sends' = BagAdd(sends, [transaction |-> transaction'])
                  /\ console'.send = console.send
       /\ BagCardinality(sends') > BagCardinality(sends) => ResponseStored
       /\ (console'.send > console.send /\ requests' = requests) =>
             \E s \in BagToSet(sends) : sends' = BagRemove(sends, s)]_vars

\* the user has declined the stored transaction and nothing is pending
C26_Witness ==
    /\ Mounted
    /\ transaction # NoTx
    /\ publicKey = transaction.feePayer
    /\ Fresh(transaction)
    /\ counters.fetches = 1
    /\ requests = EmptyBag
    /\ sends = EmptyBag
    /\ console.send = 1
    /\ ~hist.broadcast

----------------------------------------------------------------------------
(* Properties of the exits of the handler *)

\* C28: every run of the handler sends exactly one response, the one the
\* client receives: no request ends with no response or with two.
C28_ExactlyOneResponse ==
    Served =>
        /\ Len(responses(served.query, served.body, served.anchor)) = 1
        /\ responses(served.query, served.body, served.anchor)
             = <<served.response.status>>

\* a request that fails all three checks at once
C28_Witness ==
    /\ served.response.status = 400
    /\ calculatePrice(served.query.items) = 0
    /\ served.query.reference = Missing
    /\ served.body.account = Missing
    /\ served.anchor = Unavailable

\* C29: the handler checks the amount, then the reference, then the
\* account: a zero amount gets the zero-charge error whatever the reference
\* and the account are, and a non-zero amount without a reference gets the
\* missing-reference error whether or not the account is there.
C29_ValidationOrder ==
    Served =>
        /\ calculatePrice(served.query.items) = 0
              => served.response.error = "Can't checkout with charge of 0"
        /\ (/\ calculatePrice(served.query.items) # 0
            /\ served.query.reference = Missing)
              => served.response.error = "No reference provided"

C29_Witness ==
    /\ calculatePrice(served.query.items) # 0
    /\ served.query.reference = Missing
    /\ served.body.account = Missing
    /\ served.response.status = 400
    /\ served.response.error = "No reference provided"

----------------------------------------------------------------------------
(* The checkout that is not cancelled, with a timer that fires and ledger  *)
(* queries that are answered                                               *)

\* setInterval: the timer of a mounted Checkout fires
TimerFires == \E t \in intervals : Tick(t)

\* a pending findReference call settles; once a transaction with the
\* reference has settled the ledger answers the query
PollSettles ==
    \E p \in BagToSet(polls), o \in {"found", "notfound", "error"} :
        /\ o = "error" => ~ReferenceSettled
        /\ PollReturn(p, o)

LiveNext ==
    \/ \E items \in Carts, g \in KeypairGenerate : Mount(items, g)
    \/ \E k \in Wallets \cup {NoKey}, g \in KeypairGenerate : WalletChange(k, g)
    \/ \E r \in BagToSet(requests), anchor \in {blockhash, Unavailable},
          g \in KeypairGenerate : FetchReturn(r, anchor, g)
    \/ \E s \in BagToSet(sends), o \in {"approved", "rejected", "failed"} :
           WalletRespond(s, o)
    \/ TimerFires
    \/ PollSettles
    \/ RouteChangeComplete
    \/ \E ref \in RefKeys : StrangerPays(ref)
    \/ LedgerAdvance

LiveSpec ==
    Init /\ [][LiveNext]_vars /\ WF_vars(TimerFires) /\ WF_vars(PollSettles)

\* the transaction the buyer approved has settled with the reference
BuyerSettled ==
    /\ hist.broadcast
    /\ \E tx \in settled :
          Mentions(tx, hist.reference) /\ tx.feePayer \in Wallets

\* C27: when the transaction the buyer approved has settled while Checkout
\* is mounted and a poll is pending or the timer can still fire, the page is
\* eventually redirected to /confirmed, whatever the earlier polls returned.
C27_EventuallyConfirmed ==
    (/\ BuyerSettled
     /\ Mounted
     /\ polls # EmptyBag \/ counters.ticks < MaxPolls) ~> Confirmed

C27_Witness ==
    /\ route = "/confirmed"
    /\ Confirmed
    /\ BuyerSettled
    /\ hist.notFound + hist.pollErrors >= 1
    /\ \A tx \in settled : tx.feePayer # Stranger

====
